---------------------------- MODULE Spec2Model ----------------------------
(***************************************************************************)
(* A model of model_helper.py: create_model, save_checkpoint,              *)
(* load_checkpoint, validate, train and predict.                           *)
(*                                                                         *)
(* The tensor engine is abstracted.  A parameter tensor is one number      *)
(* modulo ParamMod; the log-probability the network gives a class is one   *)
(* of NumLevels levels (a higher level is a higher probability); exp is a  *)
(* strictly increasing map of a level; a real number (a loss, an accuracy) *)
(* is an exact fraction <<numerator, denominator>> in lowest terms.  The   *)
(* use_gpu flag only moves tensors between devices and is left out.        *)
(***************************************************************************)
EXTENDS Integers, Sequences, FiniteSets, TLC

VARIABLES
    model,      \* the model create_model returned (made = FALSE before)
    optimizer,  \* the optimizer create_model returned
    mapping,    \* the class_to_idx argument create_model was called with
    pc,         \* position of the single thread of control
    tr,         \* the locals of the running (or last) call of train
    va,         \* the locals of the running (or last) call of validate
    ret,        \* what the last completed call returned, raised and printed
    fs,         \* the file system: path -> <<>> or <<checkpoint>>
    saved,      \* the arguments of the last save_checkpoint to each path
    loaded      \* the model load_checkpoint returned (made = FALSE before)

vars == <<model, optimizer, mapping, pc, tr, va, ret, fs, saved, loaded>>

----------------------------------------------------------------------------
(* Bounds of the model *)

MaxEpochs == 2
ParamMod == 3
NumLevels == 4
MidBatches == 25
LongBatches == 40

(* Constants of the program *)

output_size == 102
load_output_size == 102
print_every == 40
topk_default == 5

----------------------------------------------------------------------------
(* Exact fractions *)

RECURSIVE GCD(_, _)
GCD(a, b) == IF b = 0 THEN a ELSE GCD(b, a % b)

Norm(f) ==
    IF f[1] = 0 THEN <<0, 1>>
    ELSE LET g == GCD(f[1], f[2]) IN <<f[1] \div g, f[2] \div g>>

Zero == <<0, 1>>
FAdd(a, b) == Norm(<<a[1] * b[2] + b[1] * a[2], a[2] * b[2]>>)
FDiv(a, n) == Norm(<<a[1], a[2] * n>>)
FLe(a, b) == a[1] * b[2] <= b[1] * a[2]

RECURSIVE SumSeq(_)
SumSeq(s) == IF s = <<>> THEN 0 ELSE Head(s) + SumSeq(Tail(s))

RECURSIVE FSum(_)
FSum(s) == IF s = <<>> THEN Zero ELSE FAdd(Head(s), FSum(Tail(s)))

----------------------------------------------------------------------------
(* Inputs *)

Archs == {"densenet121", "vgg16"}

\* Label mappings (raw label -> index) as an image folder produces them:
\* injective, onto 0 .. n-1.
Flowers102 == [l \in 1..102 |-> 102 - l]
Five == [l \in {10, 20, 30, 40, 50} |-> (l \div 10) - 1]
Mappings == {Flowers102, Five}

\* The random initial values of the new head's two linear layers.
HeadInits == {[fc1 |-> 1, fc2 |-> 1], [fc1 |-> 0, fc2 |-> 2], [fc1 |-> 2, fc2 |-> 0]}

Images == {0, 1}

\* An example is <<input, label index>>; a batch is a sequence of examples;
\* a data loader is a sequence of batches.
Bat(i) == << <<i % 2, i % 3>>, <<(i + 1) % 2, (2 * i) % 5>> >>
MkLoader(n) == [i \in 1..n |-> Bat(i)]
ShortLoader == << << <<0, 0>>, <<1, 1>> >>, << <<1, 0>> >>, << <<0, 2>>, <<1, 4>>, <<1, 1>> >> >>
TrainLoaders == {<<>>, ShortLoader, MkLoader(MidBatches), MkLoader(LongBatches)}

ValEqual == << << <<0, 1>>, <<1, 0>> >>, << <<1, 3>>, <<0, 0>> >> >>
ValUnequal == << << <<0, 0>>, <<0, 0>> >>, << <<1, 0>> >> >>
ValLoaders == {<<>>, ValEqual, ValUnequal}

SaveEpochs == {1, MaxEpochs}
SavePaths == {"checkpoint.pth"}
LoadPaths == SavePaths \cup {"missing.pth"}
TopKs == {topk_default}


----------------------------------------------------------------------------
(* The network and the tensor engine *)

Absent == [made |-> FALSE]

\* models.densenet121(pretrained=True): the pretrained weights, every
\* parameter trainable, the batch-norm running statistics, training mode.
Pretrained ==
    [made |-> TRUE,
     params |-> [features |-> 1, classifier |-> 1],
     requires_grad |-> [features |-> TRUE, classifier |-> TRUE],
     bn |-> 1,
     out_features |-> 1000,
     training |-> TRUE,
     class_to_idx |-> <<>>]

\* for param in model.parameters(): param.requires_grad = False
FreezeParameters_Skipped(m) == m
FreezeParameters(m) ==
    [m EXCEPT !.requires_grad = [n \in DOMAIN m.params |-> FALSE]]

\* model.classifier = nn.Sequential(fc1, relu, fc2, LogSoftmax): the old
\* classifier is dropped, the new layers are freshly initialised (h) and
\* trainable, and the output has `width` classes.
AttachClassifier(m, h, width) ==
    [m EXCEPT !.params = [features |-> m.params.features,
                          fc1 |-> h.fc1, fc2 |-> h.fc2],
              !.requires_grad = [features |-> m.requires_grad.features,
                                 fc1 |-> TRUE, fc2 |-> TRUE],
              !.out_features = width]

\* filter(lambda p: p.requires_grad, model.parameters())
TrainableParameters(m) == {n \in DOMAIN m.params : m.requires_grad[n]}

\* optim.Adam(parameters, lr=0.001): bound to the given parameters, no step yet.
Adam(ps) == [params |-> ps, state |-> [n \in ps |-> 0]]

\* {class_to_idx[k]: k for k in class_to_idx}
SwapKeysAndItems(M) ==
    [i \in {M[k] : k \in DOMAIN M} |-> CHOOSE k \in DOMAIN M : M[k] = i]

\* model.train() and model.eval()
SetTrain(m) == [m EXCEPT !.training = TRUE]
SetEval(m) == [m EXCEPT !.training = FALSE]

Inputs(batch) == [i \in 1..Len(batch) |-> batch[i][1]]
Labels(batch) == [i \in 1..Len(batch) |-> batch[i][2]]

\* Batch normalisation: the statistic of the batch at hand in training mode,
\* the stored running statistic in inference mode.
BatchStat(xs) == SumSeq(xs) % 2
NormStat(m, xs) == IF m.training THEN BatchStat(xs) ELSE m.bn

\* model.forward(inputs): per example, the log-probability level of each of
\* the out_features classes.
Forward(m, xs) ==
    [i \in 1..Len(xs) |->
        [c \in 0..(m.out_features - 1) |->
            (m.params.features * xs[i] + NormStat(m, xs) + m.params.fc1
                + m.params.fc2 * (c + 1)) % NumLevels]]

\* A forward pass in training mode also moves the running statistics.
ForwardBuffers(m, xs) ==
    IF m.training THEN (m.bn + BatchStat(xs) + 1) % NumLevels ELSE m.bn

\* nn.NLLLoss(): the mean over the batch of minus the log-probability of the
\* true class.
NLLLoss(output, labels) ==
    Norm(<<SumSeq([i \in 1..Len(labels) |-> (NumLevels - 1) - output[i][labels[i]]]),
           Len(labels)>>)

\* torch.exp
Exp(v) == 2 ^ v

\* The largest value of row among the classes in cands, and the first class
\* in cands that has value v.
MaxValue(row, cands) ==
    LET vs == {row[c] : c \in cands} IN CHOOSE v \in vs : \A w \in vs : w <= v
RECURSIVE FirstAt(_, _, _, _)
FirstAt(row, cands, v, c) ==
    IF c \in cands /\ row[c] = v THEN c ELSE FirstAt(row, cands, v, c + 1)
ArgMaxIn(row, cands) == FirstAt(row, cands, MaxValue(row, cands), 0)

\* ps.max(1)[1]: the class of highest probability (the first among equals).
ArgMax(row) == ArgMaxIn(row, DOMAIN row)

\* tensor.topk(k): the k largest values, largest first, with their indices
\* (among equal values, the lower index first).
RECURSIVE TopKFrom(_, _, _)
TopKFrom(row, k, cands) ==
    IF k = 0 THEN <<>>
    ELSE LET best == ArgMaxIn(row, cands)
         IN  <<best>> \o TopKFrom(row, k - 1, cands \ {best})
TopK(row, k) ==
    LET idx == TopKFrom(row, k, DOMAIN row)
    IN  [values |-> [i \in 1..k |-> row[idx[i]]], indices |-> idx]

\* loss.backward(): a gradient for every parameter that requires one.
Backward(m, batch) ==
    [n \in TrainableParameters(m) |->
        1 + ((SumSeq(Inputs(batch)) + SumSeq(Labels(batch))) % 2)]

\* optimizer.step(): every parameter the optimizer is bound to and that has a
\* gradient moves by it; the others are left alone.
OptimizerStep(opt, m, grad) ==
    [n \in DOMAIN m.params |->
        IF n \in opt.params /\ n \in DOMAIN grad
        THEN (m.params[n] + grad[n]) % ParamMod
        ELSE m.params[n]]
OptimizerState(opt, grad) ==
    [n \in opt.params |->
        IF n \in DOMAIN grad THEN opt.state[n] + 1 ELSE opt.state[n]]

\* model.state_dict(): parameters and buffers, with the head's shape.
StateDict(m) == [params |-> m.params, bn |-> m.bn, out_features |-> m.out_features]

\* model.load_state_dict(sd): keys and shapes must match.
StateDictFits(m, sd) ==
    /\ DOMAIN sd.params = DOMAIN m.params
    /\ sd.out_features = m.out_features
LoadStateDict(m, sd) == [m EXCEPT !.params = sd.params, !.bn = sd.bn]

\* The body of create_model after the architecture is chosen.
BuildModel(M, h) ==
    [AttachClassifier(FreezeParameters(Pretrained), h, output_size)
        EXCEPT !.class_to_idx = SwapKeysAndItems(M)]

\* The model load_checkpoint builds from a checkpoint record.
LoadedModel_MappingNotRestored(state, h) ==
    LoadStateDict(AttachClassifier(Pretrained, h, load_output_size), state.state_dict)
LoadedModel(state, h) ==
    [LoadStateDict(AttachClassifier(Pretrained, h, load_output_size), state.state_dict)
        EXCEPT !.class_to_idx = state.class_to_idx]

\* The record save_checkpoint hands to torch.save.
CheckpointState(m, opt, total_epochs) ==
    [epoch |-> total_epochs,
     arch |-> "densenet121",
     state_dict |-> StateDict(m),
     optimizer |-> opt.state,
     class_to_idx |-> m.class_to_idx]

\* What predict computes from a model in inference mode.
PredictValue(m, x, topk) ==
    LET output == Forward(SetEval(m), <<x>>)[1]
        ps == TopK([c \in DOMAIN output |-> Exp(output[c])], topk)
        found == \A i \in 1..topk : ps.indices[i] \in DOMAIN m.class_to_idx
    IN  IF found
        THEN [status |-> "ok", probs |-> ps.values,
              classes |-> [i \in 1..topk |-> m.class_to_idx[ps.indices[i]]]]
        ELSE [status |-> "KeyError", probs |-> <<>>, classes |-> <<>>]

----------------------------------------------------------------------------
(* State *)

Init ==
    /\ model = Absent
    /\ optimizer = Adam({})
    /\ mapping = <<>>
    /\ pc = "idle"
    /\ tr = [started |-> FALSE, epochs |-> 0, epoch |-> 0, bidx |-> 0, steps |-> 0,
             running_loss |-> Zero, tloader |-> <<>>, vloader |-> <<>>,
             losses |-> <<>>, log |-> <<>>]
    /\ va = [caller |-> "none", loader |-> <<>>, idx |-> 0, accuracy |-> Zero,
             test_loss |-> Zero, result |-> <<Zero, Zero>>]
    /\ ret = [op |-> "none", status |-> "ok"]
    /\ fs = [p \in LoadPaths |-> <<>>]
    /\ saved = [p \in LoadPaths |-> <<>>]
    /\ loaded = Absent

----------------------------------------------------------------------------
(* create_model, save_checkpoint, load_checkpoint, predict *)

\* create_model(arch, class_to_idx): arch is never read.
CreateModel(arch, M, h) ==
    /\ pc = "idle"
    /\ ~model.made
    /\ model' = BuildModel(M, h)
    /\ optimizer' = Adam(TrainableParameters(model'))
    /\ mapping' = M
    /\ ret' = [op |-> "create_model", status |-> "ok", arch |-> arch]
    /\ UNCHANGED <<pc, tr, va, fs, saved, loaded>>

SaveCheckpoint(file_path, total_epochs) ==
    /\ pc = "idle"
    /\ model.made
    /\ fs' = [fs EXCEPT ![file_path] = <<CheckpointState(model, optimizer, total_epochs)>>]
    /\ saved' = [saved EXCEPT ![file_path] = <<[model |-> model, total_epochs |-> total_epochs]>>]
    /\ ret' = [op |-> "save_checkpoint", status |-> "ok", path |-> file_path,
               arch |-> "densenet121", epoch |-> total_epochs]
    /\ UNCHANGED <<model, optimizer, mapping, pc, tr, va, loaded>>

\* load_checkpoint(file_path); h is the random initialisation of the new head,
\* overwritten by load_state_dict.
LoadCheckpoint(file_path, h) ==
    /\ pc = "idle"
    /\ IF fs[file_path] = <<>>
       THEN /\ ret' = [op |-> "load_checkpoint", status |-> "FileNotFoundError",
                       path |-> file_path]
            /\ UNCHANGED loaded
       ELSE LET state == fs[file_path][1]
                fresh == AttachClassifier(Pretrained, h, load_output_size)
            IN  IF StateDictFits(fresh, state.state_dict)
                THEN /\ loaded' = LoadedModel(state, h)
                     /\ ret' = [op |-> "load_checkpoint", status |-> "ok",
                                path |-> file_path, arch |-> state.arch,
                                epoch |-> state.epoch]
                ELSE /\ ret' = [op |-> "load_checkpoint", status |-> "RuntimeError",
                                path |-> file_path]
                     /\ UNCHANGED loaded
    /\ UNCHANGED <<model, optimizer, mapping, pc, tr, va, fs, saved>>

\* predict(image_path, model, use_gpu, topk) on the created or the loaded
\* model; x is the preprocessed image.
Predict(which, x, topk) ==
    /\ pc = "idle"
    /\ LET m == IF which = "created" THEN model ELSE loaded
           r == PredictValue(m, x, topk)
       IN  /\ m.made
           /\ ret' = [op |-> "predict", status |-> r.status, which |-> which,
                      topk |-> topk, probs |-> r.probs, classes |-> r.classes]
           /\ IF which = "created"
              THEN model' = SetEval(model) /\ UNCHANGED loaded
              ELSE loaded' = SetEval(loaded) /\ UNCHANGED model
    /\ UNCHANGED <<optimizer, mapping, pc, tr, va, fs, saved>>

----------------------------------------------------------------------------
(* validate *)

\* The first lines of validate: model.eval(), accuracy = 0, test_loss = 0.
ValidateBegin(caller, data_loader) ==
    /\ model' = SetEval(model)
    /\ va' = [caller |-> caller, loader |-> data_loader, idx |-> 0,
              accuracy |-> Zero, test_loss |-> Zero, result |-> <<Zero, Zero>>]
    /\ pc' = "validate"

\* validate(model, criterion, data_loader, use_gpu) called by the user.
ValidateCall(data_loader) ==
    /\ pc = "idle"
    /\ model.made
    /\ ValidateBegin("user", data_loader)
    /\ ret' = [op |-> "running", status |-> "ok"]
    /\ UNCHANGED <<optimizer, mapping, tr, fs, saved, loaded>>

\* The mean of `equality` over one batch.
BatchAccuracy(output, labels) ==
    Norm(<<Cardinality({i \in 1..Len(labels) : labels[i] = ArgMax(output[i])}),
           Len(labels)>>)

\* One iteration of validate's loop over the data loader.
ValidateBatch_Stepping ==
    /\ pc = "validate"
    /\ va.idx < Len(va.loader)
    /\ LET batch == va.loader[va.idx + 1]
           output == Forward(model, Inputs(batch))
           grad == Backward(model, batch)
       IN  /\ va' = [va EXCEPT !.idx = @ + 1,
                               !.test_loss = FAdd(@, NLLLoss(output, Labels(batch))),
                               !.accuracy = FAdd(@, BatchAccuracy(output, Labels(batch)))]
           /\ model' = [model EXCEPT !.bn = ForwardBuffers(model, Inputs(batch)),
                                     !.params = OptimizerStep(optimizer, model, grad)]
    /\ UNCHANGED <<optimizer, mapping, pc, tr, ret, fs, saved, loaded>>
ValidateBatch ==
    /\ pc = "validate"
    /\ va.idx < Len(va.loader)
    /\ LET batch == va.loader[va.idx + 1]
           output == Forward(model, Inputs(batch))
       IN  /\ va' = [va EXCEPT !.idx = @ + 1,
                               !.test_loss = FAdd(@, NLLLoss(output, Labels(batch))),
                               !.accuracy = FAdd(@, BatchAccuracy(output, Labels(batch)))]
           /\ model' = [model EXCEPT !.bn = ForwardBuffers(model, Inputs(batch))]
    /\ UNCHANGED <<optimizer, mapping, pc, tr, ret, fs, saved, loaded>>

\* return test_loss/len(data_loader), accuracy/len(data_loader); a division by
\* zero raises, and the error leaves train as well.
ValidateReturn ==
    /\ pc = "validate"
    /\ va.idx = Len(va.loader)
    /\ IF Len(va.loader) = 0
       THEN /\ pc' = "idle"
            /\ ret' = [op |-> IF va.caller = "train" THEN "train" ELSE "validate",
                       status |-> "ZeroDivisionError"]
            /\ UNCHANGED va
       ELSE LET result == <<FDiv(va.test_loss, Len(va.loader)),
                            FDiv(va.accuracy, Len(va.loader))>>
            IN  /\ va' = [va EXCEPT !.result = result]
                /\ IF va.caller = "train"
                   THEN pc' = "train_log" /\ UNCHANGED ret
                   ELSE /\ pc' = "idle"
                        /\ ret' = [op |-> "validate", status |-> "ok",
                                   test_loss |-> result[1], accuracy |-> result[2]]
    /\ UNCHANGED <<model, optimizer, mapping, tr, fs, saved, loaded>>

----------------------------------------------------------------------------
(* train *)

\* train(model, criterion, optimizer, epochs, training_data_loader,
\* validation_data_loader, use_gpu), called once, on the created model:
\* model.train(), print_every = 40, steps = 0.
TrainCall(epochs, training_data_loader, validation_data_loader) ==
    /\ pc = "idle"
    /\ model.made
    /\ ~tr.started
    /\ model' = SetTrain(model)
    /\ tr' = [started |-> TRUE, epochs |-> epochs, epoch |-> 0, bidx |-> 0,
              steps |-> 0, running_loss |-> Zero,
              tloader |-> training_data_loader, vloader |-> validation_data_loader,
              losses |-> <<>>, log |-> <<>>]
    /\ pc' = "train_epoch"
    /\ ret' = [op |-> "running", status |-> "ok"]
    /\ UNCHANGED <<optimizer, mapping, va, fs, saved, loaded>>

\* for epoch in range(epochs): running_loss = 0
TrainEpochBegin ==
    /\ pc = "train_epoch"
    /\ tr.epoch < tr.epochs
    /\ tr' = [tr EXCEPT !.running_loss = Zero, !.bidx = 0]
    /\ pc' = "train_batch"
    /\ UNCHANGED <<model, optimizer, mapping, va, ret, fs, saved, loaded>>

\* if steps % print_every == 0
LogDue(steps) == steps % print_every = 0

\* One iteration of the loop over the training batches, down to the test of
\* steps % print_every.
TrainBatch ==
    /\ pc = "train_batch"
    /\ tr.bidx < Len(tr.tloader)
    /\ LET batch == tr.tloader[tr.bidx + 1]
           steps == tr.steps + 1
           output == Forward(model, Inputs(batch))
           loss == NLLLoss(output, Labels(batch))
           grad == Backward(model, batch)
       IN  /\ model' = [model EXCEPT !.bn = ForwardBuffers(model, Inputs(batch)),
                                     !.params = OptimizerStep(optimizer, model, grad)]
           /\ optimizer' = [optimizer EXCEPT !.state = OptimizerState(optimizer, grad)]
           /\ tr' = [tr EXCEPT !.steps = steps, !.bidx = @ + 1,
                               !.running_loss = FAdd(@, loss),
                               !.losses = Append(@, loss)]
           /\ pc' = IF LogDue(steps) THEN "train_validate" ELSE "train_batch"
    /\ UNCHANGED <<mapping, va, ret, fs, saved, loaded>>

\* test_loss, accuracy = validate(model, criterion, validation_data_loader, use_gpu)
TrainValidate ==
    /\ pc = "train_validate"
    /\ ValidateBegin("train", tr.vloader)
    /\ UNCHANGED <<optimizer, mapping, tr, ret, fs, saved, loaded>>

\* The print, running_loss = 0, and model.train().
TrainLog_StaysInEval ==
    /\ pc = "train_log"
    /\ tr' = [tr EXCEPT !.log = Append(@, [epoch |-> tr.epoch + 1, steps |-> tr.steps,
                                           training_loss |-> FDiv(tr.running_loss, print_every),
                                           test_loss |-> va.result[1],
                                           accuracy |-> va.result[2]]),
                        !.running_loss = Zero]
    /\ pc' = "train_batch"
    /\ UNCHANGED <<model, optimizer, mapping, va, ret, fs, saved, loaded>>
TrainLog ==
    /\ pc = "train_log"
    /\ tr' = [tr EXCEPT !.log = Append(@, [epoch |-> tr.epoch + 1, steps |-> tr.steps,
                                           training_loss |-> FDiv(tr.running_loss, print_every),
                                           test_loss |-> va.result[1],
                                           accuracy |-> va.result[2]]),
                        !.running_loss = Zero]
    /\ model' = SetTrain(model)
    /\ pc' = "train_batch"
    /\ UNCHANGED <<optimizer, mapping, va, ret, fs, saved, loaded>>

\* The training batches of the epoch are exhausted.
TrainEpochEnd_TestsLogDue ==
    /\ pc = "train_batch"
    /\ tr.bidx = Len(tr.tloader)
    /\ tr' = [tr EXCEPT !.epoch = @ + 1]
    /\ pc' = IF LogDue(tr.steps) THEN "train_validate" ELSE "train_epoch"
    /\ UNCHANGED <<model, optimizer, mapping, va, ret, fs, saved, loaded>>
TrainEpochEnd ==
    /\ pc = "train_batch"
    /\ tr.bidx = Len(tr.tloader)
    /\ tr' = [tr EXCEPT !.epoch = @ + 1]
    /\ pc' = "train_epoch"
    /\ UNCHANGED <<model, optimizer, mapping, va, ret, fs, saved, loaded>>

\* The loop over the epochs is over: train returns.
TrainReturn ==
    /\ pc = "train_epoch"
    /\ tr.epoch = tr.epochs
    /\ pc' = "idle"
    /\ ret' = [op |-> "train", status |-> "ok"]
    /\ UNCHANGED <<model, optimizer, mapping, tr, va, fs, saved, loaded>>

----------------------------------------------------------------------------
(* Specifications *)

\* A training session: create_model, then validate and train.
Next ==
    \/ \E arch \in Archs, M \in Mappings, h \in HeadInits : CreateModel(arch, M, h)
    \/ \E vl \in ValLoaders : ValidateCall(vl)
    \/ ValidateBatch
    \/ ValidateReturn
    \/ \E e \in 0..MaxEpochs, tl \in TrainLoaders, vl \in ValLoaders : TrainCall(e, tl, vl)
    \/ TrainEpochBegin
    \/ TrainBatch
    \/ TrainValidate
    \/ TrainLog
    \/ TrainEpochEnd
    \/ TrainReturn

Spec == Init /\ [][Next]_vars

\* A checkpoint session: create_model, a short training (too short to reach a
\* multiple of print_every steps), save_checkpoint, load_checkpoint, predict.
NextStore ==
    \/ \E arch \in Archs, M \in Mappings, h \in HeadInits : CreateModel(arch, M, h)
    \/ TrainCall(1, ShortLoader, ValEqual)
    \/ TrainEpochBegin
    \/ TrainBatch
    \/ TrainEpochEnd
    \/ TrainReturn
    \/ \E p \in SavePaths, e \in SaveEpochs : SaveCheckpoint(p, e)
    \/ \E p \in LoadPaths, h \in HeadInits : LoadCheckpoint(p, h)
    \/ \E w \in {"created", "loaded"}, x \in Images, k \in TopKs : Predict(w, x, k)

SpecStore == Init /\ [][NextStore]_vars

----------------------------------------------------------------------------
(* Properties *)

SupportedArch == "densenet121"
One == <<1, 1>>

\* C1: for the label mapping M passed to create_model, the head of the
\* returned model has len(M) outputs and model.class_to_idx is the exact
\* inverse of M.
C1_WidthAndInverse ==
    model.made =>
        /\ model.out_features = Cardinality(DOMAIN mapping)
        /\ DOMAIN model.class_to_idx = {mapping[l] : l \in DOMAIN mapping}
        /\ \A l \in DOMAIN mapping : model.class_to_idx[mapping[l]] = l
        /\ \A i \in DOMAIN model.class_to_idx : mapping[model.class_to_idx[i]] = i

\* C2: load_checkpoint on the file save_checkpoint(path, model, optimizer, E)
\* wrote yields a model with the saved model's parameters, buffers and label
\* mapping, hence the same predictions on every input, and reports epoch E.
C2_RoundTrip ==
    (ret.op = "load_checkpoint" /\ ret.status = "ok") =>
        LET s == saved[ret.path][1] IN
        /\ loaded.params = s.model.params
        /\ loaded.bn = s.model.bn
        /\ loaded.class_to_idx = s.model.class_to_idx
        /\ ret.epoch = s.total_epochs
        /\ \A x \in Images, k \in TopKs :
               PredictValue(loaded, x, k) = PredictValue(s.model, x, k)

\* C2 witness: a checkpoint of a model that training has changed was loaded.
C2_LoadedTrainedModel ==
    /\ ret.op = "load_checkpoint"
    /\ ret.status = "ok"
    /\ saved[ret.path][1].model.bn # Pretrained.bn
    /\ saved[ret.path][1].model.params # BuildModel(mapping, [fc1 |-> 1, fc2 |-> 1]).params
    /\ loaded.made

\* C3: predict with K = 5 on a model of at least 5 classes returns exactly 5
\* (probability, label) pairs in non-increasing order of probability, every
\* label a raw label of the model's label mapping.
C3_PredictTop5 ==
    (ret.op = "predict" /\ ret.topk = topk_default
        /\ Cardinality(DOMAIN mapping) >= topk_default) =>
        /\ ret.status = "ok"
        /\ Len(ret.probs) = topk_default
        /\ Len(ret.classes) = topk_default
        /\ \A i \in 1..(topk_default - 1) : ret.probs[i] >= ret.probs[i + 1]
        /\ \A i \in 1..topk_default : ret.classes[i] \in DOMAIN mapping

\* C4: no step of validate, called by the user or by train, changes the value
\* of a model parameter.
C4_ValidateKeepsParameters ==
    [][((\E vl \in ValLoaders : ValidateCall(vl)) \/ TrainValidate
            \/ ValidateBatch \/ ValidateReturn)
        => model'.params = model.params]_vars

\* C4 witness: a call of validate over a non-empty data set has returned.
C4_Validated ==
    /\ ret.op = "validate"
    /\ ret.status = "ok"
    /\ va.idx = Len(va.loader)
    /\ va.idx > 1

TrainPcs == {"train_epoch", "train_batch", "train_validate", "train_log"}

\* C5: a call of train with a training data loader of 0 batches takes no
\* optimizer step, never calls validate, leaves every parameter unchanged,
\* can always go on to its return (within the epochs asked for) and returns
\* without error, for every number of epochs and every validation data loader.
C5_EmptyTraining ==
    /\ [][(tr'.started /\ Len(tr'.tloader) = 0 /\ (pc \in TrainPcs \/ pc' \in TrainPcs))
            => /\ model'.params = model.params
               /\ optimizer' = optimizer
               /\ tr'.steps = 0
               /\ pc' \in {"train_epoch", "train_batch", "idle"}
               /\ (pc' = "idle" => ret' = [op |-> "train", status |-> "ok"])]_vars
    /\ []((tr.started /\ Len(tr.tloader) = 0 /\ pc \in TrainPcs)
            => /\ tr.epoch <= tr.epochs
               /\ ENABLED (TrainEpochBegin \/ TrainEpochEnd \/ TrainReturn))

\* C5 witness: train over 0 batches, with an empty validation set too, has
\* returned after MaxEpochs epochs.
C5_EmptyTrainingReturned ==
    /\ ret.op = "train"
    /\ ret.status = "ok"
    /\ tr.tloader = <<>>
    /\ tr.vloader = <<>>
    /\ tr.epochs = MaxEpochs
    /\ tr.epoch = MaxEpochs

\* The number of examples of a data loader, and the number of them whose
\* arg-max class under model m is the true label.
RECURSIVE TotalExamples(_)
TotalExamples(loader) ==
    IF loader = <<>> THEN 0 ELSE Len(Head(loader)) + TotalExamples(Tail(loader))
RECURSIVE CorrectExamples(_, _)
CorrectExamples(m, loader) ==
    IF loader = <<>> THEN 0
    ELSE LET batch == Head(loader)
             output == Forward(m, Inputs(batch))
         IN  Cardinality({i \in 1..Len(batch) : batch[i][2] = ArgMax(output[i])})
                + CorrectExamples(m, Tail(loader))

\* C6: the accuracy validate returns is the number of correctly classified
\* examples divided by the number of examples, whatever the batches, and lies
\* in [0, 1].
C6_AccuracyIsCorrectOverTotal ==
    (ret.op = "validate" /\ ret.status = "ok") =>
        /\ ret.accuracy = Norm(<<CorrectExamples(model, va.loader), TotalExamples(va.loader)>>)
        /\ FLe(Zero, ret.accuracy)
        /\ FLe(ret.accuracy, One)

\* C7: create_model with an architecture other than the supported one ends in
\* an error and returns no model.
C7_UnsupportedArchRejected ==
    (ret.op = "create_model" /\ ret.arch # SupportedArch) =>
        (ret.status # "ok" /\ ~model.made)

\* C8: with the model and optimizer of create_model, no step of a training
\* session changes a parameter outside the classifier head.
C8_OnlyHeadTrained ==
    [][model.made =>
        \A n \in DOMAIN model.params \ {"fc1", "fc2"} :
            model'.params[n] = model.params[n]]_vars

\* C8 witness: train has returned after optimizer steps that changed the head.
C8_TrainedHead ==
    /\ ret.op = "train"
    /\ ret.status = "ok"
    /\ tr.steps > 0
    /\ optimizer.state.fc1 = tr.steps
    /\ "features" \notin optimizer.params

\* C9: every training step runs in training mode, every forward pass of a
\* validation inside train runs in inference mode, and train returns with the
\* model in training mode.
C9_ModeDiscipline ==
    [][/\ TrainBatch => model.training
       /\ (ValidateBatch /\ va.caller = "train") => ~model.training
       /\ TrainReturn => model.training]_vars

\* C9 witness: train has returned and its last step triggered a validation.
C9_ReturnedAfterValidation ==
    /\ ret.op = "train"
    /\ ret.status = "ok"
    /\ tr.steps > 0
    /\ LogDue(tr.steps)
    /\ Len(tr.log) = tr.steps \div print_every

\* C10: train validates and logs exactly at the positive multiples of 40 of
\* the cumulative step count, and the training loss of each log is the mean
\* of the losses of the 40 steps before it.
C10_LogsMeanOfLast40 ==
    tr.started =>
        /\ \A i \in 1..Len(tr.log) :
               /\ tr.log[i].steps = i * print_every
               /\ tr.log[i].training_loss =
                      FDiv(FSum(SubSeq(tr.losses,
                                       tr.log[i].steps - print_every + 1,
                                       tr.log[i].steps)),
                           print_every)
        /\ pc \in {"train_epoch", "train_batch"} =>
               Len(tr.log) = tr.steps \div print_every

=============================================================================
